---- MODULE Spec2Model ----
(***************************************************************************)
(* Model of the Hamming AI API demo snippets:                              *)
(*   shared/python/hamming_client.py      HammingClient (requests session, *)
(*                                        _make_request retry loop,        *)
(*                                        wait_for_completion poller)      *)
(*   inbound-calls/python/basic_example.py   main (uses HammingClient)     *)
(*   outbound-calls/python/advanced_example.py  HammingOutboundCallAPI,    *)
(*                                        wait_for_completion, main        *)
(*   outbound-calls/python/basic_example.py  HammingOutboundCallAPI, main  *)
(*                                                                         *)
(* One behaviour of the model is one run of one program (prog): a caller   *)
(* of HammingClient.wait_for_completion ("client"), or one of the three    *)
(* scripts.  Time is a clock in whole seconds; an HTTP attempt takes       *)
(* 0..MaxDelay seconds and a sleep its nominal time (a sleep that lasts    *)
(* longer reads on the clock like a longer request before it).  The remote *)
(* service is the environment: every HTTP attempt draws its outcome from   *)
(* Outcomes and its body from the status values.                           *)
(***************************************************************************)
EXTENDS Integers, Sequences, FiniteSets, TLC

\* ------------------------------------------------------------------ bounds
\* largest polling deadline (seconds) a run is given
MaxTimeout == 10
\* largest duration of one HTTP attempt (seconds)
MaxDelay == 1
\* largest configured HAMMING_MAX_RETRIES
MaxRetries == 2

\* ------------------------------------------------------- program constants
\* time.sleep(5) in HammingClient.wait_for_completion
CLIENT_POLL_INTERVAL == 5
\* time.sleep(5) in the inbound monitoring loop
INBOUND_POLL_INTERVAL == 5
\* asyncio.sleep(10) in the advanced outbound wait_for_completion
ADVANCED_POLL_INTERVAL == 10

Progs == {"client", "inbound", "advanced", "basic"}

\* Python's None, and the marker of a field that a response body lacks
None == "None"
Absent == "<absent>"

\* the values an environment variable / the api_key argument can have
KeyValues == {None, "", "sk-key"}
\* os.getenv("HAMMING_API_KEY", "your-api-key-here") and the agent id default
PLACEHOLDER_KEY == "your-api-key-here"
PLACEHOLDER_AGENT == "your-agent-id"
AgentValues == {None, "agent-1"}
\* (api_key argument, HAMMING_API_KEY) pairs a HammingClient is constructed with
ClientKeys == {<<None, None>>, <<None, "">>, <<"", None>>, <<"", "">>,
               <<None, "sk-key">>, <<"sk-key", None>>}

\* deadlines the runs are given (timeout / max_wait_seconds): the sources use
\* 300 s (HammingClient default) and 600 s (scripts); the model keeps the poll
\* intervals of 5 s and 10 s and runs with deadlines of a few intervals
Timeouts == {0, MaxTimeout}
\* values of HAMMING_MAX_RETRIES after int()
RetryValues == -1 .. MaxRetries
Delays == 0 .. MaxDelay

\* status strings the remote service may put in a status body
StatusValues == {"completed", "failed", "cancelled", "running",
                 "COMPLETED", "FAILED", "CANCELLED", "RUNNING"}
\* what one HTTP attempt can come back with
HttpCodes == {200, 201, 404, 500}
Outcomes == {[transport_error |-> TRUE, code |-> 0]} \cup
            {[transport_error |-> FALSE, code |-> c] : c \in HttpCodes}

\* the run identifier the create call hands out
RunId == "run-1"

VARIABLES
    prog,          \* which program this run is
    pc,            \* position of the single flow of control
    retpc,         \* where _make_request returns to
    now,           \* time.time(), seconds
    start_time,    \* start_time of the poll loop
    timeout,       \* timeout / max_wait_seconds of the poll loop
    max_retries,   \* HAMMING_MAX_RETRIES (self.max_retries)
    call_type,     \* call_type argument of HammingClient.wait_for_completion
    api_key_arg,   \* api_key argument of HammingClient(...)
    env_api_key,   \* HAMMING_API_KEY
    env_agent_id,  \* HAMMING_AGENT_ID
    session,       \* "none" | "open" | "closed"
    req,           \* the request being executed: endpoint kind, or "none"
    attempt,       \* loop variable of _make_request
    attempts,      \* HTTP attempts made for the current / last request
    backoffs,      \* wait_time of every backoff sleep of that request
    ret,           \* what the last request handed to its caller
    polls,         \* status requests made (executor calls / aiohttp calls)
    pollSleeps,    \* poll-interval sleeps made
    resultsReqs,   \* results requests made
    firstTerm,     \* first status snapshot with a terminal status observed
    retval,        \* what the poller returned / raised
    exc,           \* exception that ended the program ("none" if none)
    failure,       \* kind of failure that happened in the run
    printed,       \* what the top level printed: "none" | "warning" | "error"
    exitCode,      \* process exit status (-1 while running / no process)
    fileWritten    \* results file written

vars == <<prog, pc, retpc, now, start_time, timeout, max_retries, call_type,
          api_key_arg, env_api_key, env_agent_id, session, req, attempt,
          attempts, backoffs, ret, polls, pollSleeps, resultsReqs,
          firstTerm, retval, exc, failure, printed, exitCode, fileWritten>>

\* variables of the request executor
reqVars == <<req, attempt, attempts, backoffs, ret, retpc>>
\* the configuration, fixed for a run
cfgVars == <<prog, timeout, max_retries, call_type, api_key_arg, env_api_key,
             env_agent_id>>

\* code: the HTTP status of the attempt that ended the request (0: none)
NoRet == [kind |-> "none", status |-> Absent, serial |-> 0, code |-> 0]
NoSnap == [set |-> FALSE, status |-> Absent, serial |-> 0, polls |-> 0,
           pollSleeps |-> 0]
NoRetval == [kind |-> "none", status |-> Absent, serial |-> 0,
             run_id |-> None, seconds |-> 0]

Init ==
    /\ prog \in Progs
    /\ pc = "start"
    /\ retpc = "none"
    /\ now = 0
    /\ start_time = 0
    /\ timeout \in IF prog = "basic" THEN {0} ELSE Timeouts
    /\ max_retries \in RetryValues
    /\ call_type \in IF prog = "client" THEN {"outbound", "inbound"} ELSE {"inbound"}
    /\ \E keys \in IF prog = "client" THEN ClientKeys ELSE {None} \X KeyValues :
         api_key_arg = keys[1] /\ env_api_key = keys[2]
    /\ env_agent_id \in IF prog \in {"advanced", "basic"} THEN AgentValues ELSE {None}
    /\ session = "none"
    /\ req = "none"
    /\ attempt = 0
    /\ attempts = 0
    /\ backoffs = <<>>
    /\ ret = NoRet
    /\ polls = 0
    /\ pollSleeps = 0
    /\ resultsReqs = 0
    /\ firstTerm = NoSnap
    /\ retval = NoRetval
    /\ exc = "none"
    /\ failure = "none"
    /\ printed = "none"
    /\ exitCode = -1
    /\ fileWritten = FALSE

\* ------------------------------------------------------------ helpers
\* Python truthiness of an optional string (None and "" are falsy)
Truthy(v) == v # None /\ v # ""

\* os.getenv(name, default)
GetEnv(v, default) == IF v = None THEN default ELSE v

\* response.raise_for_status(): HTTPError for 4xx and 5xx; a transport
\* error is a RequestException raised by session.request itself
RequestSucceeds(o) == ~o.transport_error /\ ~(o.code >= 400 /\ o.code < 600)

\* the status-field values a body of the given request can carry
StatusKinds == {"get_outbound_test_run", "get_inbound_test_run", "get_test_run_status"}
ResultsKinds == {"get_inbound_test_results", "get_outbound_test_results", "get_test_results"}
BodyValues(kind) ==
    IF kind \in StatusKinds THEN StatusValues \cup {Absent}
    ELSE IF kind \in ResultsKinds THEN {"{}", "payload"}
    ELSE {"created"}

\* dict.get('status', 'unknown')
GetStatus(body) == IF body.status = Absent THEN "unknown" ELSE body.status

\* the terminal statuses of a run: completed, failed, cancelled (the outbound
\* REST API spells them in upper case)
SpecTerminal == {"completed", "failed", "cancelled"}
SpecTerminalUpper == {"COMPLETED", "FAILED", "CANCELLED"}

\* wait_for_completion with a terminal test that forgets 'cancelled'
CLIENT_TERMINAL_NoCancelled == {"completed", "failed"}
\* wait_for_completion that stops on every status but 'running'
CLIENT_TERMINAL_AllButRunning == (StatusValues \cup {"unknown"}) \ {"running"}

\* the terminal statuses wait_for_completion of HammingClient tests for
CLIENT_TERMINAL == {"completed", "failed", "cancelled"}

\* an exception leaves the current function: the library caller ("client")
\* just receives it; in the scripts it runs into main's except clause, and
\* in the outbound scripts it first leaves the async with block (__aexit__)
Raise(e, f) ==
    /\ exc' = e
    /\ failure' = f
    /\ pc' = IF prog = "client" THEN "done" ELSE "except"
    /\ session' = IF prog \in {"advanced", "basic"} /\ session = "open"
                  THEN "closed" ELSE session

\* history of the poll loop: the first status snapshot that carried a
\* terminal status, with the counts of status requests and sleeps at it
Observe(body, terminal) ==
    firstTerm' = IF ~firstTerm.set /\ GetStatus(body) \in terminal
                 THEN [set |-> TRUE, status |-> body.status, serial |-> body.serial,
                       polls |-> polls, pollSleeps |-> pollSleeps]
                 ELSE firstTerm

\* ------------------------------------------------ HammingClient.__init__
\* a constructor that opens the session before it looks at the key
HammingClient_init_LateCheck ==
    /\ pc = "start"
    /\ prog \in {"client", "inbound"}
    /\ session' = "open"
    /\ LET api_key == IF Truthy(api_key_arg) THEN api_key_arg ELSE env_api_key
       IN IF ~Truthy(api_key)
          THEN /\ exc' = "ValueError"
               /\ failure' = "config"
               /\ pc' = IF prog = "client" THEN "done" ELSE "except"
          ELSE /\ pc' = IF prog = "client" THEN "wfc_enter" ELSE "in_create"
               /\ UNCHANGED <<exc, failure>>
    /\ UNCHANGED <<cfgVars, reqVars, now, start_time, polls, pollSleeps,
                   resultsReqs, firstTerm, retval, printed, exitCode, fileWritten>>

\* api_key or HAMMING_API_KEY; ValueError without one; else the session
HammingClient_init ==
    /\ pc = "start"
    /\ prog \in {"client", "inbound"}
    /\ LET api_key == IF Truthy(api_key_arg) THEN api_key_arg ELSE env_api_key
       IN IF ~Truthy(api_key)
          THEN /\ Raise("ValueError", "config")
          ELSE /\ session' = "open"
               /\ pc' = IF prog = "client" THEN "wfc_enter" ELSE "in_create"
               /\ UNCHANGED <<exc, failure>>
    /\ UNCHANGED <<cfgVars, reqVars, now, start_time, polls, pollSleeps,
                   resultsReqs, firstTerm, retval, printed, exitCode, fileWritten>>

\* --------------------------------------------- HammingClient._make_request
\* entering _make_request(kind): the for loop over range(max_retries + 1);
\* with an empty range the function falls off its end and returns None
CallMakeRequest(kind, back) ==
    /\ req' = kind
    /\ retpc' = back
    /\ attempt' = 0
    /\ attempts' = 0
    /\ backoffs' = <<>>
    /\ IF 0 < max_retries + 1
       THEN pc' = "mr_attempt" /\ ret' = NoRet
       ELSE pc' = back /\ ret' = [NoRet EXCEPT !.kind = "None"]

\* one iteration of the loop up to the return / the except clause
make_request_attempt ==
    /\ pc = "mr_attempt"
    /\ \E o \in Outcomes, d \in Delays, s \in BodyValues(req) :
         /\ now' = now + d
         /\ attempts' = attempts + 1
         /\ IF RequestSucceeds(o)
            THEN /\ ret' = [kind |-> "value", status |-> s, serial |-> polls,
                          code |-> o.code]
                 /\ pc' = retpc
            ELSE IF attempt < max_retries
            THEN /\ pc' = "mr_backoff"
                 /\ ret' = ret
            ELSE /\ ret' = [NoRet EXCEPT !.kind = "raise", !.code = o.code]
                 /\ pc' = retpc
    /\ UNCHANGED <<cfgVars, req, retpc, attempt, backoffs, start_time, session,
                   polls, pollSleeps, resultsReqs, firstTerm, retval, exc,
                   failure, printed, exitCode, fileWritten>>

\* a backoff that grows linearly: wait_time = 2 * attempt
make_request_backoff_Linear ==
    /\ pc = "mr_backoff"
    /\ LET wait_time == 2 * attempt
       IN /\ now' = now + wait_time
          /\ backoffs' = Append(backoffs, wait_time)
    /\ attempt' = attempt + 1
    /\ pc' = "mr_attempt"
    /\ UNCHANGED <<cfgVars, req, retpc, attempts, ret, start_time, session,
                   polls, pollSleeps, resultsReqs, firstTerm, retval, exc,
                   failure, printed, exitCode, fileWritten>>

\* wait_time = 2 ** attempt; time.sleep(wait_time); next iteration
make_request_backoff ==
    /\ pc = "mr_backoff"
    /\ LET wait_time == 2 ^ attempt
       IN /\ now' = now + wait_time
          /\ backoffs' = Append(backoffs, wait_time)
    /\ attempt' = attempt + 1
    /\ IF attempt + 1 < max_retries + 1
       THEN pc' = "mr_attempt" /\ ret' = ret
       ELSE pc' = retpc /\ ret' = [NoRet EXCEPT !.kind = "None"]
    /\ UNCHANGED <<cfgVars, req, retpc, attempts, start_time, session,
                   polls, pollSleeps, resultsReqs, firstTerm, retval, exc,
                   failure, printed, exitCode, fileWritten>>

\* --------------------------------------- HammingClient.wait_for_completion
\* start_time = time.time()
wfc_enter ==
    /\ pc = "wfc_enter"
    /\ start_time' = now
    /\ pc' = "wfc_loop"
    /\ UNCHANGED <<cfgVars, reqVars, now, session, polls, pollSleeps, resultsReqs,
                   firstTerm, retval, exc, failure, printed, exitCode, fileWritten>>

\* while time.time() - start_time < timeout: get_*_test_run(run_id)
\* else: raise TimeoutError(run_id, timeout)
wfc_loop ==
    /\ pc = "wfc_loop"
    /\ IF now - start_time < timeout
       THEN /\ CallMakeRequest(IF call_type = "outbound" THEN "get_outbound_test_run"
                               ELSE "get_inbound_test_run", "wfc_status")
            /\ polls' = polls + 1
            /\ UNCHANGED <<retval, exc, failure, session>>
       ELSE /\ retval' = [NoRetval EXCEPT !.kind = "TimeoutError", !.run_id = RunId,
                                          !.seconds = timeout]
            /\ Raise("TimeoutError", "deadline")
            /\ UNCHANGED <<reqVars, polls>>
    /\ UNCHANGED <<cfgVars, now, start_time, pollSleeps, resultsReqs, firstTerm,
                   printed, exitCode, fileWritten>>

\* a status test that looks at the deadline again after the poll and raises
\* TimeoutError when it has passed, whatever the poll observed
wfc_status_DeadlineAfterPoll ==
    /\ pc = "wfc_status"
    /\ IF ret.kind = "raise"
       THEN /\ Raise("RequestException", "request")
            /\ UNCHANGED <<retval, firstTerm>>
       ELSE IF ret.kind = "None"
       THEN /\ Raise("AttributeError", "other")
            /\ UNCHANGED <<retval, firstTerm>>
       ELSE /\ Observe(ret, SpecTerminal)
            /\ IF now - start_time >= timeout
               THEN /\ retval' = [NoRetval EXCEPT !.kind = "TimeoutError",
                                                  !.run_id = RunId,
                                                  !.seconds = timeout]
                    /\ Raise("TimeoutError", "deadline")
               ELSE /\ IF GetStatus(ret) \in CLIENT_TERMINAL
                       THEN /\ retval' = [NoRetval EXCEPT !.kind = "snapshot",
                                                          !.status = ret.status,
                                                          !.serial = ret.serial]
                            /\ pc' = "done"
                       ELSE /\ pc' = "wfc_sleep"
                            /\ retval' = retval
                    /\ UNCHANGED <<exc, failure, session>>
    /\ UNCHANGED <<cfgVars, reqVars, now, start_time, polls, pollSleeps,
                   resultsReqs, printed, exitCode, fileWritten>>

\* a status test that swallows the error of a failed status request and
\* carries on as if the run were still in progress
wfc_status_SwallowError ==
    /\ pc = "wfc_status"
    /\ IF ret.kind \in {"raise", "None"}
       THEN /\ pc' = "wfc_sleep"
            /\ UNCHANGED <<retval, firstTerm>>
       ELSE /\ Observe(ret, SpecTerminal)
            /\ IF GetStatus(ret) \in CLIENT_TERMINAL
               THEN /\ retval' = [NoRetval EXCEPT !.kind = "snapshot",
                                                  !.status = ret.status,
                                                  !.serial = ret.serial]
                    /\ pc' = "done"
               ELSE /\ pc' = "wfc_sleep"
                    /\ retval' = retval
    /\ UNCHANGED <<cfgVars, reqVars, now, start_time, polls, pollSleeps,
                   resultsReqs, printed, exitCode, fileWritten, exc, failure,
                   session>>

\* status = run_status.get('status', 'unknown'); terminal: return run_status
wfc_status ==
    /\ pc = "wfc_status"
    /\ IF ret.kind = "raise"
       THEN /\ Raise("RequestException", "request")
            /\ UNCHANGED <<retval, firstTerm>>
       ELSE IF ret.kind = "None"
       THEN /\ Raise("AttributeError", "other")
            /\ UNCHANGED <<retval, firstTerm>>
       ELSE /\ Observe(ret, SpecTerminal)
            /\ IF GetStatus(ret) \in CLIENT_TERMINAL
               THEN /\ retval' = [NoRetval EXCEPT !.kind = "snapshot",
                                                  !.status = ret.status,
                                                  !.serial = ret.serial]
                    /\ pc' = "done"
               ELSE /\ pc' = "wfc_sleep"
                    /\ retval' = retval
            /\ UNCHANGED <<exc, failure, session>>
    /\ UNCHANGED <<cfgVars, reqVars, now, start_time, polls, pollSleeps,
                   resultsReqs, printed, exitCode, fileWritten>>

\* a poll loop that sleeps one second between polls
wfc_sleep_OneSecond ==
    /\ pc = "wfc_sleep"
    /\ now' = now + 1
    /\ pollSleeps' = pollSleeps + 1
    /\ pc' = "wfc_loop"
    /\ UNCHANGED <<cfgVars, reqVars, start_time, session, polls, resultsReqs,
                   firstTerm, retval, exc, failure, printed, exitCode, fileWritten>>

\* a poll loop whose sleep grows with the number of sleeps already made
wfc_sleep_Growing ==
    /\ pc = "wfc_sleep"
    /\ now' = now + CLIENT_POLL_INTERVAL * (pollSleeps + 1)
    /\ pollSleeps' = pollSleeps + 1
    /\ pc' = "wfc_loop"
    /\ UNCHANGED <<cfgVars, reqVars, start_time, session, polls, resultsReqs,
                   firstTerm, retval, exc, failure, printed, exitCode, fileWritten>>

\* time.sleep(5)
wfc_sleep ==
    /\ pc = "wfc_sleep"
    /\ now' = now + CLIENT_POLL_INTERVAL
    /\ pollSleeps' = pollSleeps + 1
    /\ pc' = "wfc_loop"
    /\ UNCHANGED <<cfgVars, reqVars, start_time, session, polls, resultsReqs,
                   firstTerm, retval, exc, failure, printed, exitCode, fileWritten>>

\* ------------------------------------------- inbound basic_example.main
\* test_run = client.create_inbound_test_run(test_config)
inbound_create ==
    /\ pc = "in_create"
    /\ CallMakeRequest("create_inbound_test_run", "in_created")
    /\ UNCHANGED <<cfgVars, now, start_time, session, polls, pollSleeps, resultsReqs,
                   firstTerm, retval, exc, failure, printed, exitCode, fileWritten>>

\* run_id = test_run['run_id'] ... timeout = 600; start_time = time.time()
\* (a create response is taken to carry its run_id and status fields; None,
\* which _make_request returns for an empty range, is not subscriptable)
inbound_created ==
    /\ pc = "in_created"
    /\ IF ret.kind = "raise"
       THEN Raise("RequestException", "request") /\ UNCHANGED start_time
       ELSE IF ret.kind = "None"
       THEN Raise("TypeError", "other") /\ UNCHANGED start_time
       ELSE /\ start_time' = now
            /\ pc' = "in_loop"
            /\ UNCHANGED <<exc, failure, session>>
    /\ UNCHANGED <<cfgVars, reqVars, now, polls, pollSleeps, resultsReqs,
                   firstTerm, retval, printed, exitCode, fileWritten>>

\* while time.time() - start_time < timeout: client.get_inbound_test_run(run_id)
\* a false condition just leaves the loop
inbound_loop ==
    /\ pc = "in_loop"
    /\ IF now - start_time < timeout
       THEN /\ CallMakeRequest("get_inbound_test_run", "in_status")
            /\ polls' = polls + 1
            /\ UNCHANGED failure
       ELSE /\ pc' = "in_final"
            /\ failure' = "deadline"
            /\ UNCHANGED <<reqVars, polls>>
    /\ UNCHANGED <<cfgVars, now, start_time, session, pollSleeps, resultsReqs,
                   firstTerm, retval, exc, printed, exitCode, fileWritten>>

\* the terminal statuses the inbound monitoring loop tests for
INBOUND_TERMINAL == {"completed", "failed"}

\* status = current_status.get('status', 'unknown'); done: break
inbound_status ==
    /\ pc = "in_status"
    /\ IF ret.kind = "raise"
       THEN Raise("RequestException", "request") /\ UNCHANGED firstTerm
       ELSE /\ Observe(ret, SpecTerminal)
            /\ pc' = IF GetStatus(ret) \in INBOUND_TERMINAL THEN "in_final" ELSE "in_sleep"
            /\ UNCHANGED <<exc, failure, session>>
    /\ UNCHANGED <<cfgVars, reqVars, now, start_time, polls, pollSleeps,
                   resultsReqs, retval, printed, exitCode, fileWritten>>

\* time.sleep(5)
inbound_sleep ==
    /\ pc = "in_sleep"
    /\ now' = now + INBOUND_POLL_INTERVAL
    /\ pollSleeps' = pollSleeps + 1
    /\ pc' = "in_loop"
    /\ UNCHANGED <<cfgVars, reqVars, start_time, session, polls, resultsReqs,
                   firstTerm, retval, exc, failure, printed, exitCode, fileWritten>>

\* final_status = client.get_inbound_test_run(run_id)
inbound_final ==
    /\ pc = "in_final"
    /\ CallMakeRequest("get_inbound_test_run", "in_final_status")
    /\ polls' = polls + 1
    /\ UNCHANGED <<cfgVars, now, start_time, session, pollSleeps, resultsReqs,
                   firstTerm, retval, exc, failure, printed, exitCode, fileWritten>>

\* results = client.get_inbound_test_results(run_id)
inbound_results ==
    /\ pc = "in_final_status"
    /\ IF ret.kind = "raise"
       THEN /\ Raise("RequestException", "request")
            /\ UNCHANGED <<reqVars, resultsReqs>>
       ELSE /\ CallMakeRequest("get_inbound_test_results", "in_results")
            /\ resultsReqs' = resultsReqs + 1
            /\ UNCHANGED <<exc, failure, session>>
    /\ UNCHANGED <<cfgVars, now, start_time, polls, pollSleeps, firstTerm, retval,
                   printed, exitCode, fileWritten>>

\* print the summary, json.dump(results) to the results file; main returns
inbound_save ==
    /\ pc = "in_results"
    /\ IF ret.kind = "raise"
       THEN /\ Raise("RequestException", "request")
            /\ UNCHANGED <<retval, fileWritten, exitCode>>
       ELSE /\ retval' = [NoRetval EXCEPT !.kind = "results", !.status = ret.status]
            /\ fileWritten' = TRUE
            /\ exitCode' = 0
            /\ pc' = "done"
            /\ UNCHANGED <<exc, failure, session>>
    /\ UNCHANGED <<cfgVars, reqVars, now, start_time, polls, pollSleeps,
                   resultsReqs, firstTerm, printed>>

\* except Exception as e: print(...); sys.exit(1)
inbound_except ==
    /\ pc = "except"
    /\ prog = "inbound"
    /\ printed' = "error"
    /\ exitCode' = 1
    /\ pc' = "done"
    /\ UNCHANGED <<cfgVars, reqVars, now, start_time, session, polls, pollSleeps,
                   resultsReqs, firstTerm, retval, exc, failure, fileWritten>>

\* ------------------------------ outbound scripts: HammingOutboundCallAPI
\* if response.status != 200: raise Exception(...); a transport error is an
\* aiohttp.ClientError out of session.post / session.get
AioSucceeds(o) == ~o.transport_error /\ o.code = 200

\* one request method of HammingOutboundCallAPI: a single HTTP attempt
AioRequest(kind, back, serial) ==
    \E o \in Outcomes, d \in Delays, s \in BodyValues(kind) :
        /\ now' = now + d
        /\ req' = kind
        /\ attempt' = 0
        /\ attempts' = 1
        /\ backoffs' = <<>>
        /\ retpc' = back
        /\ IF AioSucceeds(o)
           THEN /\ ret' = [kind |-> "value", status |-> s, serial |-> serial,
                         code |-> o.code]
                /\ pc' = back
                /\ UNCHANGED <<exc, failure, session>>
           ELSE /\ ret' = [NoRet EXCEPT !.kind = "raise", !.code = o.code]
                /\ Raise("Exception", "request")

\* main up to the async with: the placeholder check, then __aenter__
outbound_main ==
    /\ pc = "start"
    /\ prog \in {"advanced", "basic"}
    /\ LET api_key == GetEnv(env_api_key, PLACEHOLDER_KEY)
           agent_id == GetEnv(env_agent_id, PLACEHOLDER_AGENT)
       IN IF api_key = PLACEHOLDER_KEY \/ agent_id = PLACEHOLDER_AGENT
          THEN \* print the warning; return (None); exit(None)
               /\ printed' = "warning"
               /\ failure' = "config"
               /\ exitCode' = 0
               /\ pc' = "done"
               /\ UNCHANGED session
          ELSE /\ session' = "open"
               /\ pc' = "ob_create"
               /\ UNCHANGED <<printed, failure, exitCode>>
    /\ UNCHANGED <<cfgVars, reqVars, now, start_time, polls, pollSleeps,
                   resultsReqs, firstTerm, retval, exc, fileWritten>>

\* test_run_response = await api.create_test_run(...)
create_test_run ==
    /\ pc = "ob_create"
    /\ AioRequest("create_test_run",
                  IF prog = "advanced" THEN "adv_choice" ELSE "ob_exit", 0)
    /\ UNCHANGED <<cfgVars, start_time, polls, pollSleeps, resultsReqs, firstTerm,
                   retval, printed, exitCode, fileWritten>>

\* choice = input(...).strip(); "1": wait_for_completion(api, test_run_id)
\* with start_time = time.time(); anything else: show the dashboard link
advanced_choice ==
    /\ pc = "adv_choice"
    /\ \E choice \in {"1", "2"} :
         IF choice = "1"
         THEN start_time' = now /\ pc' = "adv_loop"
         ELSE start_time' = start_time /\ pc' = "ob_exit"
    /\ UNCHANGED <<cfgVars, reqVars, now, session, polls, pollSleeps, resultsReqs,
                   firstTerm, retval, exc, failure, printed, exitCode, fileWritten>>

\* while True: if time.time() - start_time > max_wait_seconds: print; return None
advanced_loop ==
    /\ pc = "adv_loop"
    /\ IF now - start_time > timeout
       THEN /\ retval' = [NoRetval EXCEPT !.kind = "None"]
            /\ failure' = "deadline"
            /\ pc' = "adv_main"
       ELSE /\ pc' = "adv_get_status"
            /\ UNCHANGED <<retval, failure>>
    /\ UNCHANGED <<cfgVars, reqVars, now, start_time, session, polls, pollSleeps,
                   resultsReqs, firstTerm, exc, printed, exitCode, fileWritten>>

\* status = await api.get_test_run_status(test_run_id)
get_test_run_status ==
    /\ pc = "adv_get_status"
    /\ polls' = polls + 1
    /\ AioRequest("get_test_run_status", "adv_status", polls + 1)
    /\ UNCHANGED <<cfgVars, start_time, pollSleeps, resultsReqs, firstTerm, retval,
                   printed, exitCode, fileWritten>>

\* the terminal statuses the advanced outbound wait_for_completion tests for
ADVANCED_TERMINAL == {"COMPLETED", "FAILED"}

\* if status["status"] in ["COMPLETED", "FAILED"]: break
advanced_status ==
    /\ pc = "adv_status"
    /\ IF ret.status = Absent
       THEN Raise("KeyError", "other") /\ UNCHANGED firstTerm
       ELSE /\ Observe(ret, SpecTerminalUpper)
            /\ pc' = IF ret.status \in ADVANCED_TERMINAL THEN "adv_get_results"
                     ELSE "adv_sleep"
            /\ UNCHANGED <<exc, failure, session>>
    /\ UNCHANGED <<cfgVars, reqVars, now, start_time, polls, pollSleeps,
                   resultsReqs, retval, printed, exitCode, fileWritten>>

\* await asyncio.sleep(10)
advanced_sleep ==
    /\ pc = "adv_sleep"
    /\ now' = now + ADVANCED_POLL_INTERVAL
    /\ pollSleeps' = pollSleeps + 1
    /\ pc' = "adv_loop"
    /\ UNCHANGED <<cfgVars, reqVars, start_time, session, polls, resultsReqs,
                   firstTerm, retval, exc, failure, printed, exitCode, fileWritten>>

\* return await api.get_test_results(test_run_id)
get_test_results ==
    /\ pc = "adv_get_results"
    /\ resultsReqs' = resultsReqs + 1
    /\ AioRequest("get_test_results", "adv_main", 0)
    /\ retval' = IF ret'.kind = "value"
                 THEN [NoRetval EXCEPT !.kind = "results", !.status = ret'.status]
                 ELSE retval
    /\ UNCHANGED <<cfgVars, start_time, polls, pollSleeps, firstTerm, printed,
                   exitCode, fileWritten>>

\* main: if results: print the summary and json.dump(results) to the file
advanced_main_results ==
    /\ pc = "adv_main"
    /\ fileWritten' = (retval.kind = "results" /\ retval.status # "{}")
    /\ pc' = "ob_exit"
    /\ UNCHANGED <<cfgVars, reqVars, now, start_time, session, polls, pollSleeps,
                   resultsReqs, firstTerm, retval, exc, failure, printed, exitCode>>

\* the async with block ends (__aexit__ closes the session); return 0
outbound_exit ==
    /\ pc = "ob_exit"
    /\ session' = "closed"
    /\ exitCode' = 0
    /\ pc' = "done"
    /\ UNCHANGED <<cfgVars, reqVars, now, start_time, polls, pollSleeps, resultsReqs,
                   firstTerm, retval, exc, failure, printed, fileWritten>>

\* except Exception as e: print(...); return 1
outbound_except ==
    /\ pc = "except"
    /\ prog \in {"advanced", "basic"}
    /\ printed' = "error"
    /\ exitCode' = 1
    /\ pc' = "done"
    /\ UNCHANGED <<cfgVars, reqVars, now, start_time, session, polls, pollSleeps,
                   resultsReqs, firstTerm, retval, exc, failure, fileWritten>>

Next ==
    \/ HammingClient_init
    \/ make_request_attempt
    \/ make_request_backoff
    \/ wfc_enter
    \/ wfc_loop
    \/ wfc_status
    \/ wfc_sleep
    \/ inbound_create
    \/ inbound_created
    \/ inbound_loop
    \/ inbound_status
    \/ inbound_sleep
    \/ inbound_final
    \/ inbound_results
    \/ inbound_save
    \/ inbound_except
    \/ outbound_main
    \/ create_test_run
    \/ advanced_choice
    \/ advanced_loop
    \/ get_test_run_status
    \/ advanced_status
    \/ advanced_sleep
    \/ get_test_results
    \/ advanced_main_results
    \/ outbound_exit
    \/ outbound_except

Spec == Init /\ [][Next]_vars

\* ================================================================ claims

\* C1: HammingClient.wait_for_completion returns on the first poll that
\* observes completed, failed or cancelled: the value returned is the
\* snapshot of that very poll, and from then on the poller is done with
\* the number of status requests and of sleeps it had at that poll.
C1_FirstTerminalPollReturns ==
    (prog = "client" /\ firstTerm.set) =>
        /\ pc = "done"
        /\ exc = "none"
        /\ retval.kind = "snapshot"
        /\ retval.status = firstTerm.status
        /\ retval.serial = firstTerm.serial
        /\ retval.status \in SpecTerminal
        /\ polls = firstTerm.polls
        /\ pollSleeps = firstTerm.pollSleeps

\* a cancelled run, seen by the second poll, has been returned
C1_Witness ==
    /\ prog = "client"
    /\ firstTerm.set /\ firstTerm.status = "cancelled" /\ firstTerm.polls = 2
    /\ retval.kind = "snapshot" /\ retval.serial = 2

\* C2 (state part): with a status value observed by the last poll, the
\* poller sleeps only if the value is not terminal, and it is done only
\* with a terminal value returned or with the deadline elapsed.
C2_NonTerminalInv ==
    (prog = "client" /\ ret.kind = "value") =>
        /\ pc = "wfc_sleep" => GetStatus(ret) \notin SpecTerminal
        /\ pc = "done" =>
             \/ retval.kind = "snapshot" /\ GetStatus(ret) \in SpecTerminal
             \/ exc = "TimeoutError" /\ now - start_time >= timeout
                  /\ GetStatus(ret) \notin SpecTerminal
        /\ exc \in {"none", "TimeoutError"}

\* C2 (step part): the step that handles a non-terminal value goes to the
\* sleep without returning or raising, the sleep goes back to the loop
\* condition, and the loop condition polls again while the deadline has not
\* elapsed.
C2_NonTerminalStep ==
    /\ (pc = "wfc_status" /\ ret.kind = "value" /\ GetStatus(ret) \notin SpecTerminal)
         => (pc' = "wfc_sleep" /\ exc' = "none" /\ retval' = retval)
    /\ (pc = "wfc_sleep") => (pc' = "wfc_loop" /\ exc' = "none")
    /\ (pc = "wfc_loop" /\ now - start_time < timeout)
         => (polls' = polls + 1 /\ exc' = "none")

\* C2: HammingClient.wait_for_completion neither returns nor raises because
\* of a status value outside {completed, failed, cancelled}: it sleeps and
\* polls again, until a terminal value is observed or the deadline elapses.
C2_NonTerminalKeepsPolling ==
    [](C2_NonTerminalInv) /\ [][C2_NonTerminalStep]_vars

\* a never-seen status value (upper-case RUNNING) was observed by the second
\* poll and the poller goes to sleep
C2_Witness ==
    /\ prog = "client"
    /\ pc = "wfc_sleep"
    /\ ret.kind = "value" /\ ret.status = "RUNNING"
    /\ polls = 2 /\ pollSleeps = 1

\* the waits 1, 2, 4, ... of the first n backoff sleeps
ExpectedBackoffs(n) == [k \in 1 .. n |-> 2 ^ (k - 1)]

\* C3: HammingClient._make_request, when every attempt fails, makes
\* max_retries + 1 attempts, sleeps 1, 2, 4, ... between them, does not sleep
\* after the last one and raises only then; a successful attempt returns at
\* once, with no attempt after it.
C3_RetrySchedule ==
    (prog \in {"client", "inbound"}) =>
        /\ backoffs = ExpectedBackoffs(Len(backoffs))
        /\ ret.kind = "raise" =>
             /\ attempts = max_retries + 1
             /\ Len(backoffs) = max_retries
             /\ pc \notin {"mr_attempt", "mr_backoff"}
        /\ pc = "mr_backoff" =>
             /\ attempts <= max_retries
             /\ attempts = Len(backoffs) + 1
             /\ ret.kind = "none"
        /\ pc = "mr_attempt" =>
             /\ attempts = Len(backoffs)
             /\ attempts <= max_retries
             /\ ret.kind = "none"
        /\ ret.kind = "value" =>
             /\ attempts = Len(backoffs) + 1
             /\ attempts <= max_retries + 1
             /\ pc \notin {"mr_attempt", "mr_backoff"}

\* with max_retries = 2 all three attempts failed after sleeps of 1 and 2
C3_Witness ==
    /\ prog = "client"
    /\ max_retries = 2
    /\ ret.kind = "raise"
    /\ attempts = 3
    /\ backoffs = <<1, 2>>

\* the poll interval I of each poller, as the claim gives it
ClaimInterval == [client |-> 5, inbound |-> 5, advanced |-> 10, basic |-> 1]
\* ceil(d / i) for d >= 0, i > 0
CeilDiv(d, i) == (d + i - 1) \div i

\* C4: with deadline D and poll interval I a poller makes at most
\* ceil(D / I) + 1 status requests (calls of the status endpoint through the
\* executor; the inbound script's final status read included).
C4_PollBound ==
    (prog \in {"client", "inbound", "advanced"}) =>
        polls <= CeilDiv(timeout, ClaimInterval[prog]) + 1

\* the advanced poller timed out on a deadline of 10 s after ceil(10/10) + 1
\* status requests
C4_Witness ==
    /\ prog = "advanced"
    /\ timeout = 10
    /\ failure = "deadline"
    /\ retval.kind = "None"
    /\ polls = 2
\* C5: a poller whose (positive) deadline is exceeded with no terminal status observed
\* fails with a timeout error that carries the run identifier and the
\* duration; it hands back neither a snapshot nor a results payload nor
\* None, and it makes no further request.
C5_TimeoutIsAnError ==
    (prog \in {"client", "advanced"} /\ timeout > 0
       /\ failure = "deadline" /\ ~firstTerm.set) =>
        /\ exc = "TimeoutError"
        /\ retval.kind = "TimeoutError"
        /\ retval.run_id = RunId
        /\ retval.seconds = timeout
        /\ resultsReqs = 0
        /\ pc \in {"done", "except"}

\* C6: in the polling scripts the results endpoint is requested only after
\* a poll has observed a terminal status, by the one executor call that
\* follows that poll; a deadline that elapses first means no results request
\* and no results file (runs with a positive deadline).
C6_ResultsOnlyAfterTerminal ==
    (prog \in {"inbound", "advanced"} /\ timeout > 0) =>
        /\ resultsReqs > 0 =>
             /\ firstTerm.set
             /\ polls = firstTerm.polls
             /\ resultsReqs = 1
        /\ (failure = "deadline" /\ ~firstTerm.set) =>
             /\ resultsReqs = 0
             /\ ~fileWritten

\* C7: a script in which a configuration failure, a request failure or an
\* exceeded deadline happened ends with a printed message and a non-zero
\* exit status.
C7_FailureExitsNonZero ==
    (prog \in {"inbound", "advanced", "basic"} /\ pc = "done"
       /\ failure \in {"config", "request", "deadline"}) =>
        /\ exitCode # 0
        /\ printed # "none"

\* C8: HammingClient constructed with no api_key argument and no
\* HAMMING_API_KEY value fails at construction with a ValueError: no
\* session, no request of any kind, and nothing runs after the failure.
C8_MissingKeyFailsFast ==
    (prog \in {"client", "inbound"} /\ ~Truthy(api_key_arg) /\ ~Truthy(env_api_key)) =>
        /\ session = "none"
        /\ req = "none" /\ attempts = 0 /\ polls = 0 /\ resultsReqs = 0
        /\ pc \in {"start", "done", "except"}
        /\ pc # "start" => (exc = "ValueError" /\ failure = "config")
        /\ (pc = "done" /\ prog = "inbound") => exitCode = 1

\* the constructor was called with neither argument nor variable and raised
C8_Witness ==
    /\ prog = "client"
    /\ api_key_arg = None /\ env_api_key = None
    /\ pc = "done"
    /\ exc = "ValueError"
    /\ session = "none"

\* C9: when a script has ended, normally or by an error, no session it
\* opened is still open (runs with a retry count that is not negative).
C9_SessionReleased ==
    (prog \in {"inbound", "advanced", "basic"} /\ max_retries >= 0 /\ pc = "done")
        => session # "open"

\* C10: a request failure reaches the caller only after the request was
\* attempted max_retries + 1 times (HAMMING_MAX_RETRIES, when not negative).
C10_EveryCallRetried ==
    (ret.kind = "raise") =>
        attempts = (IF max_retries < 0 THEN 0 ELSE max_retries) + 1

\* C11: in the inbound script and in the advanced outbound script, when the
\* create call succeeded and the first status poll observed a terminal
\* status (completed, failed or cancelled), no poll-interval sleep is made:
\* the flow goes on to the results request without one (runs with a
\* positive deadline and a retry count that is not negative).
C11_NoDelayAfterTerminalFirstPoll ==
    (prog \in {"inbound", "advanced"} /\ timeout > 0 /\ max_retries >= 0
       /\ firstTerm.set /\ firstTerm.polls = 1) =>
        /\ pollSleeps = 0
        /\ pc \notin {"in_sleep", "adv_sleep"}

\* the positions at which a poller is between two requests
BetweenRequests == {"wfc_loop", "in_loop", "in_final", "adv_get_status"}
\* the positions at which a poller sleeps its poll interval
PollSleepPcs == {"wfc_sleep", "in_sleep", "adv_sleep"}

\* C12 (step): a status request is started only while no request is in
\* progress and after the previous one returned; an attempt inside the
\* executor of HammingClient is started only after every earlier attempt of
\* the request failed and slept its backoff; a sleep between two polls lasts the
\* poller's fixed interval whatever the number of polls and of sleeps made,
\* and no request is started during it.
C12_SequentialStep ==
    /\ polls' = polls + 1 =>
         /\ pc \in BetweenRequests
         /\ req # "none" => ret.kind = "value"
    /\ (prog \in {"client", "inbound"} /\ attempts' = attempts + 1) =>
         /\ pc = "mr_attempt"
         /\ attempts = Len(backoffs)
         /\ ret.kind = "none"
    /\ pollSleeps' # pollSleeps =>
         /\ pc \in PollSleepPcs
         /\ pollSleeps' = pollSleeps + 1
         /\ now' - now = ClaimInterval[prog]
         /\ polls' = polls /\ attempts' = attempts /\ req' = req
    /\ pc \in PollSleepPcs => pollSleeps' = pollSleeps + 1

\* C12: in every poller at most one status request is in flight at a time,
\* retries included, and the sleep between two polls is the same fixed
\* interval whatever the number of polls already made.
C12_SequentialFixedInterval == [][C12_SequentialStep]_vars

\* the client poller slept twice, and its second poll needed a retry
C12_Witness ==
    /\ prog = "client"
    /\ pc = "wfc_loop"
    /\ polls = 2 /\ pollSleeps = 2
    /\ attempts = 2 /\ backoffs = <<1>>
    /\ now >= 2 * CLIENT_POLL_INTERVAL + 1

\* C13: in the inbound monitoring loop and in the advanced outbound
\* wait_for_completion a poll that observes completed, failed or cancelled
\* ends the polling at that poll: no sleep and no pass through the loop
\* follows it (runs with a retry count that is not negative).
C13_SameTerminalSet ==
    (prog \in {"inbound", "advanced"} /\ max_retries >= 0 /\ firstTerm.set) =>
        /\ pollSleeps = firstTerm.pollSleeps
        /\ pc \notin {"in_sleep", "in_loop", "in_status",
                      "adv_sleep", "adv_loop", "adv_get_status", "adv_status"}

\* C14: a status response without a status field never makes a poller
\* raise: the poller treats it as "unknown" and goes on to sleep (the only
\* error a poller may then end with is the elapsed deadline; runs with a
\* retry count that is not negative).
C14_MissingStatusIsUnknown ==
    (prog \in {"client", "inbound", "advanced"} /\ max_retries >= 0
       /\ req \in StatusKinds
       /\ ret.kind = "value" /\ ret.status = Absent) =>
        /\ exc \in {"none", "TimeoutError"}
        /\ pc \notin {"except"}

\* the HTTP statuses that mean success
Is2xx(code) == code >= 200 /\ code <= 299

\* C15: a request method hands back the parsed body exactly when the
\* response status is 2xx, and reports a failure exactly when the status is
\* not 2xx or the transport failed (runs with a retry count that is not
\* negative).
C15_FailureIffNon2xx ==
    (max_retries >= 0) =>
        /\ ret.kind = "value" => Is2xx(ret.code)
        /\ ret.kind = "raise" => ~Is2xx(ret.code)

\* C16: a call of HammingClient._make_request that has ended made at least
\* one attempt and either returned the body of a successful attempt or
\* raised the error of the last failed one; it never returned None.
C16_MakeRequestNeverReturnsNone ==
    (prog \in {"client", "inbound"} /\ req # "none"
       /\ pc \notin {"mr_attempt", "mr_backoff"}) =>
        /\ ret.kind \in {"value", "raise"}
        /\ attempts >= 1

\* C17 (state part): HammingClient.wait_for_completion has raised
\* TimeoutError only with no terminal status observed, and either the most
\* recent poll observed a non-terminal status or no poll was made and
\* timeout <= 0.
C17_TimeoutInv ==
    (prog = "client" /\ exc = "TimeoutError") =>
        /\ ~firstTerm.set
        /\ now - start_time >= timeout
        /\ \/ polls = 0 /\ timeout <= 0
           \/ /\ polls > 0
              /\ ret.kind = "value"
              /\ GetStatus(ret) \notin SpecTerminal

\* C17 (step part): the deadline is tested only at the loop condition,
\* before a poll is started; a poll is started only before the deadline; a
\* poll that observed a terminal status returns that snapshot whatever the
\* clock says.
C17_DeadlineStep ==
    (prog = "client") =>
        /\ (exc = "none" /\ exc' = "TimeoutError") =>
             (pc = "wfc_loop" /\ now - start_time >= timeout)
        /\ polls' = polls + 1 => now - start_time < timeout
        /\ (pc = "wfc_status" /\ ret.kind = "value"
              /\ GetStatus(ret) \in SpecTerminal) =>
             /\ exc' = "none"
             /\ pc' = "done"
             /\ retval'.kind = "snapshot"
             /\ retval'.serial = ret.serial

\* C17: HammingClient.wait_for_completion checks the deadline only before
\* it starts a poll: a terminal status observed by a poll that started
\* before the deadline is returned even if the deadline passed during the
\* request, and TimeoutError is raised only after a non-terminal poll or,
\* with timeout <= 0, with no poll at all.
C17_DeadlineOnlyBeforePoll == [](C17_TimeoutInv) /\ [][C17_DeadlineStep]_vars

\* the second poll started before the deadline, its retries and backoff
\* sleeps took it to the deadline, and the terminal snapshot was returned
C17_Witness ==
    /\ prog = "client"
    /\ timeout > 0
    /\ retval.kind = "snapshot"
    /\ polls = 2
    /\ Len(backoffs) >= 1
    /\ now - start_time >= timeout

\* C18: when a status request of HammingClient.wait_for_completion has
\* failed with the retries exhausted, the error leaves wait_for_completion
\* at once: no sleep and no poll follows, and the poller ends with the
\* request error, neither with TimeoutError nor with a snapshot.
C18_RequestErrorPropagates ==
    (prog = "client" /\ ret.kind = "raise") =>
        /\ pc \in {"wfc_status", "done"}
        /\ pollSleeps = polls - 1
        /\ attempts = max_retries + 1
        /\ retval.kind = "none"
        /\ pc = "wfc_status" => exc = "none"
        /\ pc = "done" => (exc = "RequestException" /\ failure = "request")

\* the second status request failed three times (max_retries = 2) and the
\* request error came out of wait_for_completion
C18_Witness ==
    /\ prog = "client"
    /\ pc = "done"
    /\ exc = "RequestException"
    /\ polls = 2 /\ pollSleeps = 1
    /\ attempts = 3

====
